---- MODULE Spec2Model ----
(***************************************************************************)
(* A model of interface.py: the configuration object of the spectra        *)
(* wrapper (classes GeneralConfigs and Calc), its property setters,        *)
(* verify_valid_parameters, set_config and run_calculation.                *)
(*                                                                         *)
(* The object is the record `self`; an attribute `_name` of the Python     *)
(* object is the record field `name`.  A Python attribute holds either     *)
(* None or a value: None is the empty tuple and a value v is <<v>>.        *)
(***************************************************************************)
EXTENDS Integers, Sequences, FiniteSets, TLC

VARIABLES
    self,     \* the Calc object (attributes of GeneralConfigs and of Calc)
    last,     \* the last public call: its name, argument and outcome
    at,       \* the position inside run_calculation ("idle" outside it)
    events,   \* the steps the current/last run_calculation call has taken
    solver_input,  \* the string the last spectra.Solver was constructed with
    ncalls    \* number of public calls made so far (history, bounds the runs)

vars == <<self, last, at, events, solver_input, ncalls>>

(***************************************************************************)
(* Bounds of the model.                                                    *)
(***************************************************************************)
MaxCalls == 4      \* public calls in one behaviour
MaxRunCalls == 3   \* public calls in one behaviour that runs calculations
MaxVal == 2        \* written peak fields / deflection parameters: 1..MaxVal
MaxPeriod == 2     \* written periods [mm]: 1..MaxPeriod
NumOpaque == 1     \* distinct values written to a field no branch inspects
MaxHarmonics == 2  \* harmonic_range is [1, 1] .. [1, 2 * MaxHarmonics - 1]
MaxPts == 2        \* points per axis in k_nr_pts and in a solver response
NumSeeds == 1      \* distinct contents of a solver response of one shape

None == <<>>
Some(v) == <<v>>

\* The selector attributes (source_type, method, indep_var, output_type,
\* slit_shape) hold a str; for them None is a string outside every
\* enumeration.  __init__ assigns none of them None.
NoneStr == "<None>"

(***************************************************************************)
(* GeneralConfigs.SourceType and the Calc.CalcConfigs enumerations.        *)
(***************************************************************************)
user_defined == "userdefined"
horizontal_undulator == "linearundulator"
vertical_undulator == "verticalundulator"
helical_undulator == "helicalundulator"
elliptic_undulator == "ellipticundulator"
figure8_undulator == "figure8undulator"
vertical_figure8_undulator == "verticalfigure8undulator"

SourceType ==
    { user_defined, horizontal_undulator, vertical_undulator, helical_undulator,
      elliptic_undulator, figure8_undulator, vertical_figure8_undulator }

near_field == "nearfield"
far_field == "farfield"
wigner == "wigner"

Method == { near_field, far_field, wigner }

energy == "en"
mesh_xy == "xy"
k_var == "k"

Variable == { energy, mesh_xy, k_var }

flux_density == "fluxdensity"
flux_out == "partialflux"
brilliance_out == "brilliance"

Output == { flux_density, flux_out, brilliance_out }

slit_none == ""
circular == "circslit"
rectangular == "retslit"

SlitShape == { slit_none, circular, rectangular }

(***************************************************************************)
(* Numbers.  The peak fields and deflection parameters are related by the  *)
(* factor c = 1e-3 * ECHARGE_MC.  A quantity is the exact value            *)
(* (n / d) * c^e, kept as the record [n, d, e] in lowest terms; c is kept  *)
(* symbolic, so no two distinct records denote the same number.  Floating  *)
(* point rounding is not modelled.                                         *)
(***************************************************************************)
RECURSIVE Gcd(_, _)
Gcd(a, b) == IF b = 0 THEN a ELSE Gcd(b, a % b)

Q(n, d, e) == [n |-> n \div Gcd(n, d), d |-> d \div Gcd(n, d), e |-> e]

Num(v) == Q(v, 1, 0)

\* 1e-3 * ECHARGE_MC * b * period
KFromPeak(b, p) == Q(b.n * p, b.d, b.e + 1)

\* kk / (ECHARGE_MC * 1e-3 * period)
PeakFromK(kk, p) == Q(kk.n, kk.d * p, kk.e - 1)

Twice(q) == Q(2 * q.n, q.d, q.e)

Half(q) == Q(q.n, 2 * q.d, q.e)

(***************************************************************************)
(* Values the callers write.  Every written value has the documented       *)
(* type of its property; None is never written.                            *)
(***************************************************************************)
Opaque == 1 .. NumOpaque
PeakValues == { Num(v) : v \in 1 .. MaxVal }
PeriodValues == 1 .. MaxPeriod
AngleValues == { <<v, v>> : v \in Opaque }          \* [theta_x, theta_y]
HarmonicRanges == { <<1, 2 * i - 1>> : i \in 1 .. MaxHarmonics }
PointCounts == 1 .. MaxPts
Booleans == { TRUE, FALSE }
Seeds == 1 .. NumSeeds
TitleCounts == { 5, 6 }     \* captions of a spectrum: without / with brilliance

(***************************************************************************)
(* Outcome of a public call.                                               *)
(***************************************************************************)
Outcome(op, arg, exc, msg, ret) ==
    [op |-> op, arg |-> arg, exc |-> exc, msg |-> msg, ret |-> ret]

\* The call returns normally, leaving the object as s.
Return(op, arg, s) ==
    /\ self' = s
    /\ last' = Outcome(op, arg, "none", "", None)

\* The call raises ValueError(msg) before any assignment.
RaiseValueError(op, arg, msg) ==
    /\ self' = self
    /\ last' = Outcome(op, arg, "ValueError", msg, None)

\* A public call is made from outside run_calculation.
Call ==
    /\ at = "idle"
    /\ ncalls < MaxCalls
    /\ ncalls' = ncalls + 1

(***************************************************************************)
(* GeneralConfigs.__init__ and Calc.__init__                               *)
(***************************************************************************)
GeneralConfigsInit ==
    [ distance_from_source |-> Some(10),
      source_type |-> user_defined,
      field |-> None,
      bx_peak |-> None,
      by_peak |-> None,
      period |-> None,
      kx |-> None,
      ky |-> None,
      id_length |-> None ]


\* The attributes of the subclass are added to those of the base class.
Extend(base, sub) ==
    [f \in (DOMAIN base) \cup (DOMAIN sub) |->
        IF f \in DOMAIN sub THEN sub[f] ELSE base[f]]

(***************************************************************************)
(* GeneralConfigs property setters                                         *)
(***************************************************************************)
set_source_type(value) ==
    /\ Call
    /\ Return("source_type", value, [self EXCEPT !.source_type = value])
    /\ UNCHANGED <<at, events, solver_input>>

set_field(value) ==
    /\ Call
    /\ IF self.source_type # user_defined
       THEN RaiseValueError("field", value,
                "Field can only be defined if source type is user_defined.")
       ELSE Return("field", value, [self EXCEPT !.field = Some(value)])
    /\ UNCHANGED <<at, events, solver_input>>

\* The body of the period setter after the guard: four assignments in order.
PeriodAssign(s0, value) ==
    LET s1 == [s0 EXCEPT !.period = Some(value)]
        s2 == IF s1.bx_peak # None
              THEN [s1 EXCEPT !.kx = Some(KFromPeak(s1.bx_peak[1], value))]
              ELSE s1
        s3 == IF s2.by_peak # None
              THEN [s2 EXCEPT !.ky = Some(KFromPeak(s2.by_peak[1], value))]
              ELSE s2
        s4 == IF s3.kx # None
              THEN [s3 EXCEPT !.bx_peak = Some(PeakFromK(s3.kx[1], value))]
              ELSE s3
        s5 == IF s4.ky # None
              THEN [s4 EXCEPT !.by_peak = Some(PeakFromK(s4.ky[1], value))]
              ELSE s4
    IN  s5

set_period(value) ==
    /\ Call
    /\ IF self.source_type = user_defined
       THEN RaiseValueError("period", value,
                "Period can only be defined if source type is not user_defined.")
       ELSE Return("period", value, PeriodAssign(self, value))
    /\ UNCHANGED <<at, events, solver_input>>

\* A variant of ByPeakAssign without the factor 2 of the vertical figure-8.
ByPeakAssign_no_figure8_factor(s0, value) ==
    LET s1 == [s0 EXCEPT !.by_peak = Some(value)]
        s2 == IF s1.period # None
              THEN [s1 EXCEPT !.ky = Some(KFromPeak(value, s1.period[1]))]
              ELSE s1
        s3 == IF s2.source_type = helical_undulator
              THEN LET h == [s2 EXCEPT !.bx_peak = Some(value)]
                   IN  IF h.period # None THEN [h EXCEPT !.kx = h.ky] ELSE h
              ELSE s2
    IN  s3

ByPeakAssign(s0, value) ==
    LET s1 == [s0 EXCEPT !.by_peak = Some(value)]
        s2 == IF s1.period # None
              THEN LET kk == KFromPeak(value, s1.period[1])
                   IN  [s1 EXCEPT !.ky =
                           Some(IF s1.source_type = vertical_figure8_undulator
                                THEN Twice(kk) ELSE kk)]
              ELSE s1
        s3 == IF s2.source_type = helical_undulator
              THEN LET h == [s2 EXCEPT !.bx_peak = Some(value)]
                   IN  IF h.period # None THEN [h EXCEPT !.kx = h.ky] ELSE h
              ELSE s2
    IN  s3

set_by_peak(value) ==
    /\ Call
    /\ IF self.source_type = user_defined
       THEN RaiseValueError("by_peak", value,
                "By peak can only be defined if source type is not user_defined.")
       ELSE IF self.source_type = vertical_undulator
       THEN RaiseValueError("by_peak", value,
                "By peak can not be defined if source type is a vertical undulator.")
       ELSE Return("by_peak", value, ByPeakAssign(self, value))
    /\ UNCHANGED <<at, events, solver_input>>

BxPeakAssign(s0, value) ==
    LET s1 == [s0 EXCEPT !.bx_peak = Some(value)]
        s2 == IF s1.period # None
              THEN LET kk == KFromPeak(value, s1.period[1])
                   IN  [s1 EXCEPT !.kx =
                           Some(IF s1.source_type = figure8_undulator
                                THEN Twice(kk) ELSE kk)]
              ELSE s1
        s3 == IF s2.source_type = helical_undulator
              THEN LET h == [s2 EXCEPT !.by_peak = Some(value)]
                   IN  IF h.period # None THEN [h EXCEPT !.ky = h.kx] ELSE h
              ELSE s2
    IN  s3

set_bx_peak(value) ==
    /\ Call
    /\ IF self.source_type = user_defined
       THEN RaiseValueError("bx_peak", value,
                "Bx peak can only be defined if source type is not user_defined.")
       ELSE IF self.source_type = horizontal_undulator
       THEN RaiseValueError("bx_peak", value,
                "Bx peak can not be defined if source type is a horizontal undulator.")
       ELSE Return("bx_peak", value, BxPeakAssign(self, value))
    /\ UNCHANGED <<at, events, solver_input>>

KyAssign(s0, value) ==
    LET s1 == [s0 EXCEPT !.ky = Some(value)]
        s2 == IF s1.period # None
              THEN LET b == PeakFromK(value, s1.period[1])
                   IN  [s1 EXCEPT !.by_peak =
                           Some(IF s1.source_type = vertical_figure8_undulator
                                THEN Half(b) ELSE b)]
              ELSE s1
        \* helical: _kx = value, then _bx_peak = self.bx_peak (no change)
        s3 == IF s2.source_type = helical_undulator
              THEN LET h == [s2 EXCEPT !.kx = Some(value)]
                   IN  IF h.period # None THEN [h EXCEPT !.bx_peak = h.bx_peak] ELSE h
              ELSE s2
    IN  s3

set_ky(value) ==
    /\ Call
    /\ IF self.source_type = user_defined
       THEN RaiseValueError("ky", value,
                "Ky can only be defined if source type is not user_defined.")
       ELSE IF self.source_type = vertical_undulator
       THEN RaiseValueError("ky", value,
                "Ky can not be defined if source type is a vertical undulator.")
       ELSE Return("ky", value, KyAssign(self, value))
    /\ UNCHANGED <<at, events, solver_input>>

KxAssign(s0, value) ==
    LET s1 == [s0 EXCEPT !.kx = Some(value)]
        s2 == IF s1.period # None
              THEN LET b == PeakFromK(value, s1.period[1])
                   IN  [s1 EXCEPT !.bx_peak =
                           Some(IF s1.source_type = figure8_undulator
                                THEN Half(b) ELSE b)]
              ELSE s1
        \* helical: _kx = value again, then _bx_peak = self.bx_peak (no change)
        s3 == IF s2.source_type = helical_undulator
              THEN LET h == [s2 EXCEPT !.kx = Some(value)]
                   IN  IF h.period # None THEN [h EXCEPT !.bx_peak = h.bx_peak] ELSE h
              ELSE s2
    IN  s3

set_kx_no_horizontal_check(value) ==
    /\ Call
    /\ IF self.source_type = user_defined
       THEN RaiseValueError("kx", value,
                "Kx can only be defined if source type is not user_defined.")
       ELSE Return("kx", value, KxAssign(self, value))
    /\ UNCHANGED <<at, events, solver_input>>

set_kx(value) ==
    /\ Call
    /\ IF self.source_type = user_defined
       THEN RaiseValueError("kx", value,
                "Kx can only be defined if source type is not user_defined.")
       ELSE IF self.source_type = horizontal_undulator
       THEN RaiseValueError("kx", value,
                "Kx can not be defined if source type is a horizontal undulator.")
       ELSE Return("kx", value, KxAssign(self, value))
    /\ UNCHANGED <<at, events, solver_input>>

set_id_length(value) ==
    /\ Call
    /\ IF self.source_type = user_defined
       THEN RaiseValueError("id_length", value,
                "Id length can only be defined if source type is not user_defined")
       ELSE Return("id_length", value, [self EXCEPT !.id_length = Some(value)])
    /\ UNCHANGED <<at, events, solver_input>>

set_distance_from_source(value) ==
    /\ Call
    /\ Return("distance_from_source", value,
              [self EXCEPT !.distance_from_source = Some(value)])
    /\ UNCHANGED <<at, events, solver_input>>

(***************************************************************************)
(* Calc.__init__                                                           *)
(***************************************************************************)
CalcInit ==
    Extend(GeneralConfigsInit,
    [ method |-> near_field,
      indep_var |-> energy,
      output_type |-> flux_density,
      slit_shape |-> slit_none,
      input_template |-> None,
      energy_range |-> None,
      energy_step |-> None,
      slit_position |-> None,
      slit_acceptance |-> None,
      target_energy |-> None,
      x_range |-> None,
      y_range |-> None,
      x_nr_pts |-> None,
      y_nr_pts |-> None,
      harmonic_range |-> None,
      k_range |-> None,
      k_nr_pts |-> None,
      slice_x |-> None,
      slice_y |-> None,
      slice_px |-> None,
      slice_py |-> None,
      add_phase_error |-> None,
      random_seed |-> None,
      rms_peak_field_var |-> None,
      rms_phase_error |-> None,
      rms_traj_error |-> None,
      output_captions |-> None,
      output_data |-> None,
      output_variables |-> None,
      flux |-> None,
      brilliance |-> None,
      pl |-> None,
      pc |-> None,
      pl45 |-> None,
      energies |-> None,
      x |-> None,
      y |-> None,
      k |-> None ])

(***************************************************************************)
(* Calc property setters                                                   *)
(***************************************************************************)
set_method(value) ==
    /\ Call
    /\ Return("method", value, [self EXCEPT !.method = value])
    /\ UNCHANGED <<at, events, solver_input>>

\* A variant of IndepVarAssign that clears the fields of the variable it leaves.
IndepVarAssign_clears_energy_fields(s0, value) ==
    LET s1 == [s0 EXCEPT !.indep_var = value]
    IN  IF value = energy
        THEN [s1 EXCEPT !.slit_position = Some(<<0, 0>>)]
        ELSE IF value = mesh_xy
        THEN [s1 EXCEPT !.slit_position = None, !.slit_shape = slit_none,
                        !.energy_range = None, !.energy_step = None]
        ELSE [s1 EXCEPT !.energy_range = None, !.energy_step = None]

IndepVarAssign(s0, value) ==
    LET s1 == [s0 EXCEPT !.indep_var = value]
    IN  IF value = energy
        THEN [s1 EXCEPT !.slit_position = Some(<<0, 0>>)]
        ELSE IF value = mesh_xy
        THEN [s1 EXCEPT !.slit_position = None, !.slit_shape = slit_none]
        ELSE s1

set_indep_var(value) ==
    /\ Call
    /\ Return("indep_var", value, IndepVarAssign(self, value))
    /\ UNCHANGED <<at, events, solver_input>>

\* A variant of OutputTypeAssign that keeps the slit shape only for flux.
OutputTypeAssign_resets_unless_flux(s0, value) ==
    LET s1 == [s0 EXCEPT !.output_type = value]
    IN  IF value # flux_out
        THEN [s1 EXCEPT !.slit_shape = slit_none]
        ELSE s1

OutputTypeAssign(s0, value) ==
    LET s1 == [s0 EXCEPT !.output_type = value]
    IN  IF value = flux_density
        THEN [s1 EXCEPT !.slit_shape = slit_none]
        ELSE s1

set_output_type(value) ==
    /\ Call
    /\ Return("output_type", value, OutputTypeAssign(self, value))
    /\ UNCHANGED <<at, events, solver_input>>

set_energy_range(value) ==
    /\ Call
    /\ IF self.indep_var # energy
       THEN RaiseValueError("energy_range", value,
                "Energy range can only be defined if the independent variable is energy.")
       ELSE Return("energy_range", value, [self EXCEPT !.energy_range = Some(value)])
    /\ UNCHANGED <<at, events, solver_input>>

set_energy_step(value) ==
    /\ Call
    /\ IF self.indep_var # energy
       THEN RaiseValueError("energy_step", value,
                "Energy step can only be defined if the independent variable is energy.")
       ELSE Return("energy_step", value, [self EXCEPT !.energy_step = Some(value)])
    /\ UNCHANGED <<at, events, solver_input>>

set_observation_angle(value) ==
    /\ Call
    /\ IF self.indep_var # energy
       THEN RaiseValueError("observation_angle", value,
                "Observation position can only be defined if the independent variable is energy.")
       ELSE Return("observation_angle", value,
                   [self EXCEPT !.slit_position = Some(value)])
    /\ UNCHANGED <<at, events, solver_input>>

set_slit_acceptance(value) ==
    /\ Call
    /\ IF self.output_type # flux_out
       THEN RaiseValueError("slit_acceptance", value,
                "Slit acceptance can only be defined if the output type is flux.")
       ELSE Return("slit_acceptance", value,
                   [self EXCEPT !.slit_acceptance = Some(value)])
    /\ UNCHANGED <<at, events, solver_input>>

set_slit_shape_unless_flux_density(value) ==
    /\ Call
    /\ IF self.output_type = flux_density
       THEN RaiseValueError("slit_shape", value,
                "Slit shape can only be defined if the output type is flux.")
       ELSE Return("slit_shape", value, [self EXCEPT !.slit_shape = value])
    /\ UNCHANGED <<at, events, solver_input>>

set_slit_shape(value) ==
    /\ Call
    /\ IF self.output_type # flux_out
       THEN RaiseValueError("slit_shape", value,
                "Slit shape can only be defined if the output type is flux.")
       ELSE Return("slit_shape", value, [self EXCEPT !.slit_shape = value])
    /\ UNCHANGED <<at, events, solver_input>>

set_target_energy(value) ==
    /\ Call
    /\ IF self.indep_var # mesh_xy
       THEN RaiseValueError("target_energy", value,
                "Target energy can only be defined if the variable is a xy mesh.")
       ELSE Return("target_energy", value, [self EXCEPT !.target_energy = Some(value)])
    /\ UNCHANGED <<at, events, solver_input>>

set_x_range(value) ==
    /\ Call
    /\ IF self.indep_var # mesh_xy
       THEN RaiseValueError("x_range", value,
                "X range can only be defined if the variable is a xy mesh.")
       ELSE Return("x_range", value, [self EXCEPT !.x_range = Some(value)])
    /\ UNCHANGED <<at, events, solver_input>>

set_y_range(value) ==
    /\ Call
    /\ IF self.indep_var # mesh_xy
       THEN RaiseValueError("y_range", value,
                "Y range can only be defined if the variable is a xy mesh.")
       ELSE Return("y_range", value, [self EXCEPT !.y_range = Some(value)])
    /\ UNCHANGED <<at, events, solver_input>>

set_x_nr_pts(value) ==
    /\ Call
    /\ IF self.indep_var # mesh_xy
       THEN RaiseValueError("x_nr_pts", value,
                "X range can only be defined if the variable is a xy mesh.")
       ELSE Return("x_nr_pts", value, [self EXCEPT !.x_nr_pts = Some(value)])
    /\ UNCHANGED <<at, events, solver_input>>

set_y_nr_pts(value) ==
    /\ Call
    /\ IF self.indep_var # mesh_xy
       THEN RaiseValueError("y_nr_pts", value,
                "Y range can only be defined if the variable is a xy mesh.")
       ELSE Return("y_nr_pts", value, [self EXCEPT !.y_nr_pts = Some(value)])
    /\ UNCHANGED <<at, events, solver_input>>

set_harmonic_range(value) ==
    /\ Call
    /\ IF self.indep_var # k_var
       THEN RaiseValueError("harmonic_range", value,
                "Harmonic range can only be defined if the variable is k.")
       ELSE Return("harmonic_range", value,
                   [self EXCEPT !.harmonic_range = Some(value)])
    /\ UNCHANGED <<at, events, solver_input>>

set_k_range(value) ==
    /\ Call
    /\ IF self.indep_var # k_var
       THEN RaiseValueError("k_range", value,
                "K range can only be defined if the variable is k.")
       ELSE Return("k_range", value, [self EXCEPT !.k_range = Some(value)])
    /\ UNCHANGED <<at, events, solver_input>>

set_k_nr_pts(value) ==
    /\ Call
    /\ IF self.indep_var # k_var
       THEN RaiseValueError("k_nr_pts", value,
                "K nr points can only be defined if the variable is k.")
       ELSE Return("k_nr_pts", value, [self EXCEPT !.k_nr_pts = Some(value)])
    /\ UNCHANGED <<at, events, solver_input>>

set_slice_x(value) ==
    /\ Call
    /\ IF self.indep_var # k_var
       THEN RaiseValueError("slice_x", value,
                "Slice x can only be defined if the variable is k.")
       ELSE Return("slice_x", value, [self EXCEPT !.slice_x = Some(value)])
    /\ UNCHANGED <<at, events, solver_input>>

set_slice_y(value) ==
    /\ Call
    /\ IF self.indep_var # k_var
       THEN RaiseValueError("slice_y", value,
                "Slice y can only be defined if the variable is k.")
       ELSE Return("slice_y", value, [self EXCEPT !.slice_y = Some(value)])
    /\ UNCHANGED <<at, events, solver_input>>

set_slice_px_unless_energy(value) ==
    /\ Call
    /\ IF self.indep_var = energy
       THEN RaiseValueError("slice_px", value,
                "Slice x' can only be defined if the variable is k.")
       ELSE Return("slice_px", value, [self EXCEPT !.slice_px = Some(value)])
    /\ UNCHANGED <<at, events, solver_input>>

set_slice_px(value) ==
    /\ Call
    /\ IF self.indep_var # k_var
       THEN RaiseValueError("slice_px", value,
                "Slice x' can only be defined if the variable is k.")
       ELSE Return("slice_px", value, [self EXCEPT !.slice_px = Some(value)])
    /\ UNCHANGED <<at, events, solver_input>>

set_slice_py(value) ==
    /\ Call
    /\ IF self.indep_var # k_var
       THEN RaiseValueError("slice_py", value,
                "Slice y' can only be defined if the variable is k.")
       ELSE Return("slice_py", value, [self EXCEPT !.slice_py = Some(value)])
    /\ UNCHANGED <<at, events, solver_input>>

set_add_phase_error(value) ==
    /\ Call
    /\ IF self.method # near_field
       THEN RaiseValueError("add_phase_error", value,
                "Phase error can only be defined if the method of calculation is near field")
       ELSE Return("add_phase_error", value,
                   [self EXCEPT !.add_phase_error = Some(value)])
    /\ UNCHANGED <<at, events, solver_input>>

set_random_seed(value) ==
    /\ Call
    /\ IF self.add_phase_error # Some(TRUE)
       THEN RaiseValueError("random_seed", value,
                "Phase error's parameters can only be defined if add_phase_error is True")
       ELSE Return("random_seed", value, [self EXCEPT !.random_seed = Some(value)])
    /\ UNCHANGED <<at, events, solver_input>>

set_rms_peak_field_var(value) ==
    /\ Call
    /\ IF self.add_phase_error # Some(TRUE)
       THEN RaiseValueError("rms_peak_field_var", value,
                "Phase error's parameters can only be defined if add_phase_error is True")
       ELSE Return("rms_peak_field_var", value,
                   [self EXCEPT !.rms_peak_field_var = Some(value)])
    /\ UNCHANGED <<at, events, solver_input>>

set_rms_phase_error_if_not_none(value) ==
    /\ Call
    /\ IF self.add_phase_error = None
       THEN RaiseValueError("rms_phase_error", value,
                "Phase error's parameters can only be defined if add_phase_error is True")
       ELSE Return("rms_phase_error", value,
                   [self EXCEPT !.rms_phase_error = Some(value)])
    /\ UNCHANGED <<at, events, solver_input>>

set_rms_phase_error(value) ==
    /\ Call
    /\ IF self.add_phase_error # Some(TRUE)
       THEN RaiseValueError("rms_phase_error", value,
                "Phase error's parameters can only be defined if add_phase_error is True")
       ELSE Return("rms_phase_error", value,
                   [self EXCEPT !.rms_phase_error = Some(value)])
    /\ UNCHANGED <<at, events, solver_input>>

set_rms_trajectory_error(value) ==
    /\ Call
    /\ IF self.add_phase_error # Some(TRUE)
       THEN RaiseValueError("rms_trajectory_error", value,
                "Phase error's parameters can only be defined if add_phase_error is True")
       ELSE Return("rms_trajectory_error", value,
                   [self EXCEPT !.rms_traj_error = Some(value)])
    /\ UNCHANGED <<at, events, solver_input>>

(***************************************************************************)
(* Calc.verify_valid_parameters                                            *)
(*                                                                         *)
(* VerifyError(s) is the message of the ValueError the method raises on    *)
(* the object s, or "" when it runs to `return True`.                      *)
(***************************************************************************)
VerifyEnergy(s) ==
    IF s.energy_range = None THEN "Energy range must be defined."
    ELSE IF s.energy_step = None THEN "Energy step must be defined."
    ELSE IF s.slit_position = None THEN "Observation angle must be defined."
    ELSE IF s.output_type = flux_out
    THEN IF s.slit_acceptance = None THEN "Slit acceptance must be defined."
         ELSE IF s.slit_shape = NoneStr THEN "Slit shape must be defined."
         ELSE ""
    ELSE ""

VerifyMesh(s) ==
    IF s.target_energy = None THEN "Energy target must be defined"
    ELSE IF s.x_range = None THEN "X range must be defined."
    ELSE IF s.y_range = None THEN "Y range must be defined."
    ELSE IF s.x_nr_pts = None THEN "Nr. of x points must be defined."
    ELSE IF s.y_nr_pts = None THEN "Nr. of y points must be defined."
    ELSE ""

VerifyK_without_slice_py(s) ==
    IF s.harmonic_range = None THEN "Harmonic range must be defined."
    ELSE IF s.k_range = None THEN "K range must be defined."
    ELSE IF s.k_nr_pts = None THEN "Number of K points must be defined."
    ELSE IF s.slice_x = None THEN "Slice x must be defined."
    ELSE IF s.slice_y = None THEN "Slice y must be defined."
    ELSE IF s.slice_px = None THEN "Slice px must be defined."
    ELSE ""

VerifyK(s) ==
    IF s.harmonic_range = None THEN "Harmonic range must be defined."
    ELSE IF s.k_range = None THEN "K range must be defined."
    ELSE IF s.k_nr_pts = None THEN "Number of K points must be defined."
    ELSE IF s.slice_x = None THEN "Slice x must be defined."
    ELSE IF s.slice_y = None THEN "Slice y must be defined."
    ELSE IF s.slice_px = None THEN "Slice px must be defined."
    ELSE IF s.slice_py = None THEN "Slice py must be defined."
    ELSE ""

VerifyError(s) ==
    LET e1 == IF s.indep_var = energy THEN VerifyEnergy(s) ELSE ""
        e2 == IF s.indep_var = mesh_xy THEN VerifyMesh(s) ELSE ""
        e3 == IF s.indep_var = k_var THEN VerifyK(s) ELSE ""
    IN  IF e1 # "" THEN e1 ELSE IF e2 # "" THEN e2 ELSE e3

verify_valid_parameters ==
    /\ Call
    /\ IF VerifyError(self) # ""
       THEN RaiseValueError("verify_valid_parameters", None, VerifyError(self))
       ELSE /\ self' = self
            /\ last' = Outcome("verify_valid_parameters", None, "none", "", Some(TRUE))
    /\ UNCHANGED <<at, events, solver_input>>

(***************************************************************************)
(* The external solver.  Its answers are inputs of the model: a response   *)
(* is what GetCaptions / GetData / GetDetailData return.  Every number of  *)
(* a response is distinct, so that a row or a cell is known by its value.  *)
(***************************************************************************)
Cell(seed, h, r, j) == 1000 * seed + 100 * h + 10 * r + j

DataRow(seed, h, r, n) == [j \in 1 .. n |-> Cell(seed, h, r, j)]

VarRow(seed, h, r, n) == [j \in 1 .. n |-> Cell(seed, h, 5 + r, j)]

\* indep_var energy: len(titles) - 1 data rows over n energies.
EnergyResponses ==
    { [ captions |-> [titles |-> [t \in 1 .. nt |-> t]],
        data |-> [r \in 1 .. nt - 1 |-> DataRow(seed, 0, r, n)],
        variables |-> << VarRow(seed, 0, 1, n) >>,
        detail |-> << >> ] :
      nt \in TitleCounts, n \in PointCounts, seed \in Seeds }

\* indep_var mesh_xy: four flat data rows over an nx by ny mesh.
MeshResponses ==
    { [ captions |-> [titles |-> [t \in 1 .. 6 |-> t]],
        data |-> [r \in 1 .. 4 |-> DataRow(seed, 0, r, sz[1] * sz[2])],
        variables |-> << VarRow(seed, 0, 1, sz[1]), VarRow(seed, 0, 2, sz[2]) >>,
        detail |-> << >> ] :
      sz \in PointCounts \X PointCounts, seed \in Seeds }

\* nr_harmonics of extractdata
NrHarmonics(s) ==
    ((s.harmonic_range[1][Len(s.harmonic_range[1])] - s.harmonic_range[1][1]) \div 2) + 1

\* indep_var k: GetDetailData(i) holds the K values and two data rows of
\* harmonic i, each over k_nr_pts points.
KResponses(s) ==
    { [ captions |-> [titles |-> [t \in 1 .. 3 |-> t]],
        data |-> << >>,
        variables |-> << >>,
        detail |-> [h \in 1 .. NrHarmonics(s) |->
                      [ variables |-> VarRow(seed, h, 1, s.k_nr_pts[1]),
                        data |-> << DataRow(seed, h, 1, s.k_nr_pts[1]),
                                    DataRow(seed, h, 2, s.k_nr_pts[1]) >> ]] ] :
      seed \in Seeds }

SolverResponses(s) ==
    IF s.indep_var = energy THEN EnergyResponses
    ELSE IF s.indep_var = mesh_xy THEN MeshResponses
    ELSE KResponses(s)

\* The rows of a nested list differ in length: numpy makes no 2-d array of it.
Ragged(rows) == \E a, b \in 1 .. Len(rows) : Len(rows[a]) # Len(rows[b])

(***************************************************************************)
(* Calc.extractdata: (captions, data, variables) of a response             *)
(***************************************************************************)
ExtractData(s, r) ==
    IF s.indep_var # k_var
    THEN [captions |-> r.captions, data |-> r.data, variables |-> r.variables]
    ELSE [captions |-> r.captions,
          data |-> [h \in 1 .. NrHarmonics(s) |-> r.detail[h].data],
          variables |-> [h \in 1 .. NrHarmonics(s) |-> r.detail[h].variables]]

(***************************************************************************)
(* Calc._set_outputs                                                       *)
(***************************************************************************)
\* numpy.reshape(row, (nx, ny)), row-major
Reshape(row, nx, ny) == [i \in 1 .. nx |-> [j \in 1 .. ny |-> row[(i - 1) * ny + j]]]

\* A variant of Flip that reverses axis 1.
Flip_axis1(m) == [i \in 1 .. Len(m) |-> [j \in 1 .. Len(m[i]) |-> m[i][Len(m[i]) + 1 - j]]]

\* numpy.flip(m, axis=0)
Flip(m) == [i \in 1 .. Len(m) |-> m[Len(m) + 1 - i]]

\* lines 1201-1203
SetFlux(s) == [s EXCEPT !.flux = Some(s.output_data[1][1])]

\* A variant of SetOutputsEnergy that reads rows 1, 2, 3 whatever the titles.
SetOutputsEnergy_five_titles_layout(s) ==
    LET data == s.output_data[1]
    IN  [s EXCEPT !.pl = Some(data[2]), !.pc = Some(data[3]),
                  !.pl45 = Some(data[4]),
                  !.energies = Some(s.output_variables[1][1])]

\* lines 1205-1215
SetOutputsEnergy(s) ==
    LET data == s.output_data[1]
        nt == Len(s.output_captions[1].titles)
        s1 == IF nt = 5
              THEN [s EXCEPT !.pl = Some(data[2]), !.pc = Some(data[3]),
                             !.pl45 = Some(data[4])]
              ELSE IF nt = 6
              THEN [s EXCEPT !.brilliance = Some(data[2]), !.pl = Some(data[3]),
                             !.pc = Some(data[4]), !.pl45 = Some(data[5])]
              ELSE s
    IN  [s1 EXCEPT !.energies = Some(s.output_variables[1][1])]

\* lines 1218-1220: the polarisation rows, assigned before the variables are read
SetMeshRows(s) ==
    LET data == s.output_data[1]
    IN  [s EXCEPT !.pl = Some(data[2]), !.pc = Some(data[3]), !.pl45 = Some(data[4])]

\* lines 1222-1235
SetOutputsMesh(s) ==
    LET xs == s.output_variables[1][1]
        ys == s.output_variables[1][2]
        nx == Len(xs)
        ny == Len(ys)
    IN  [s EXCEPT !.x = Some(xs), !.y = Some(ys),
                  !.flux = Some(Flip(Reshape(s.flux[1], nx, ny))),
                  !.pl = Some(Flip(Reshape(s.pl[1], nx, ny))),
                  !.pc = Some(Flip(Reshape(s.pc[1], nx, ny))),
                  !.pl45 = Some(Flip(Reshape(s.pl45[1], nx, ny)))]

SetOutputs(s) ==
    IF s.indep_var = energy THEN SetOutputsEnergy(SetFlux(s))
    ELSE IF s.indep_var = mesh_xy THEN SetOutputsMesh(SetMeshRows(SetFlux(s)))
    ELSE SetFlux(s)

(***************************************************************************)
(* Calc.run_calculation, one action per step.  `events` lists the steps    *)
(* of the call: "verify", "Solver" (the solver is constructed), "Run",     *)
(* "extractdata", "_set_outputs".                                          *)
(***************************************************************************)
\* line 36: json.dumps(input_template).  A JSON text is denoted by the value
\* it encodes: <<"json", None>> is the text null, <<"json", <<doc>>>> the text
\* of the object doc.
JsonDumps(template) == <<"json", template>>

run_calculation_solver_first ==
    /\ Call
    /\ events' = << "Solver", "Run", "verify" >>
    /\ solver_input' = Some(JsonDumps(self.input_template))
    /\ IF VerifyError(self) # ""
       THEN /\ RaiseValueError("run_calculation", None, VerifyError(self))
            /\ at' = "idle"
       ELSE /\ self' = self
            /\ last' = Outcome("run_calculation", None, "pending", "", None)
            /\ at' = "extract"

\* line 1192: self.verify_valid_parameters()
run_calculation ==
    /\ Call
    /\ events' = << "verify" >>
    /\ UNCHANGED solver_input
    /\ IF VerifyError(self) # ""
       THEN /\ RaiseValueError("run_calculation", None, VerifyError(self))
            /\ at' = "idle"
       ELSE /\ self' = self
            /\ last' = Outcome("run_calculation", None, "pending", "", None)
            /\ at' = "solver"

\* line 1193: _run_solver; sys.exit() when the solver is not ready
run_solver ==
    /\ at = "solver"
    /\ solver_input' = Some(JsonDumps(self.input_template))
    /\ \E isready \in Booleans :
          IF isready
          THEN /\ events' = events \o << "Solver", "Run" >>
               /\ at' = "extract"
               /\ UNCHANGED last
          ELSE /\ events' = Append(events, "Solver")
               /\ at' = "idle"
               /\ last' = Outcome("run_calculation", None, "SystemExit", "", None)
    /\ UNCHANGED <<self, ncalls>>

\* lines 1194-1197: extractdata and the three assignments.  numpy.array of
\* ragged variables either raises ValueError or makes a 1-d array of lists,
\* depending on the numpy version.
run_extractdata ==
    /\ at = "extract"
    /\ events' = Append(events, "extractdata")
    /\ \E r \in SolverResponses(self) :
          LET out == ExtractData(self, r)
              stored == [self EXCEPT !.output_captions = Some(out.captions),
                                     !.output_data = Some(out.data),
                                     !.output_variables = Some(out.variables)]
          IN  \/ /\ self' = stored
                 /\ at' = "set_outputs"
                 /\ UNCHANGED last
              \/ /\ Ragged(out.variables)
                 /\ self' = self
                 /\ at' = "idle"
                 /\ last' = Outcome("run_calculation", None, "ValueError",
                                    "inhomogeneous shape", None)
    /\ UNCHANGED <<ncalls, solver_input>>

\* line 1198: _set_outputs.  Indexing a 1-d array of lists with [0, :]
\* raises IndexError, after lines 1203-1220 have run.
run_set_outputs ==
    /\ at = "set_outputs"
    /\ events' = Append(events, "_set_outputs")
    /\ at' = "idle"
    /\ IF self.indep_var = mesh_xy /\ Ragged(self.output_variables[1])
       THEN /\ self' = SetMeshRows(SetFlux(self))
            /\ last' = Outcome("run_calculation", None, "IndexError", "", None)
       ELSE /\ self' = SetOutputs(self)
            /\ last' = Outcome("run_calculation", None, "none", "", None)
    /\ UNCHANGED <<ncalls, solver_input>>

(***************************************************************************)
(* set_config.  The template is a JSON file of the repository, named after *)
(* the five selectors; its content is not part of interface.py.  The       *)
(* document kept in input_template is modelled by the name of the file it  *)
(* was loaded from and, for every entry set_config or                      *)
(* _set_accelerator_config can assign, either None (the entry is as the    *)
(* file has it) or <<v>> (the entry was assigned v).  An attribute is      *)
(* assigned as the object holds it, so an assigned Python None is          *)
(* <<None>>.  A key is the path of the entry, its parts joined by "/".     *)
(***************************************************************************)
REPOS_PATH == "<REPOS_PATH>"

\* A variant of ConfigName that appends "_" and the slit shape always.
ConfigName_always_suffix(s) ==
    REPOS_PATH \o "/calculation_parameters/"
        \o s.source_type \o "_" \o s.method \o "_" \o s.indep_var
        \o "_" \o s.output_type \o "_" \o s.slit_shape \o ".json"

ConfigName(s) ==
    REPOS_PATH \o "/calculation_parameters/"
        \o s.source_type \o "_" \o s.method \o "_" \o s.indep_var
        \o "_" \o s.output_type
        \o (IF s.slit_shape # slit_none THEN "_" \o s.slit_shape ELSE "")
        \o ".json"

AcceleratorKeys ==
    { "Accelerator/Energy (GeV)", "Accelerator/Current (mA)",
      "Accelerator/&sigma;<sub>z</sub> (mm)",
      "Accelerator/Nat. Emittance (m.rad)", "Accelerator/Coupling Constant",
      "Accelerator/Energy Spread", "Accelerator/&beta;<sub>x,y</sub> (m)",
      "Accelerator/&alpha;<sub>x,y</sub>", "Accelerator/&eta;<sub>x,y</sub> (m)",
      "Accelerator/&eta;'<sub>x,y</sub>",
      "Accelerator/Options/Injection Condition",
      "Accelerator/Options/Zero Emittance",
      "Accelerator/Options/Zero Energy Spread" }

LightSourceKeys ==
    { "Light Source/Field Profile/data", "Light Source/K value",
      "Light Source/K<sub>x,y</sub>", "Light Source/&lambda;<sub>u</sub> (mm)",
      "Light Source/Device Length (m)" }

EnergyKeys ==
    { "Configurations/Energy Range (eV)", "Configurations/Energy Pitch (eV)" }

MeshKeys ==
    { "Configurations/&theta;<sub>x</sub> Range (mrad)",
      "Configurations/&theta;<sub>y</sub> Range (mrad)",
      "Configurations/Points (x)", "Configurations/Points (y)" }

KScanKeys ==
    { "Configurations/Harmonic Range", "Configurations/K Range",
      "Configurations/Points (K)", "Configurations/Slice X (mm)",
      "Configurations/Slice Y (mm)", "Configurations/Slice X' (mrad)",
      "Configurations/Slice Y' (mrad)" }

ConfigurationsKeys ==
    EnergyKeys \cup MeshKeys \cup KScanKeys \cup
    { "Configurations/Angle &theta;<sub>x,y</sub> (mrad)",
      "Configurations/Slit Pos.: &theta;<sub>x,y</sub> (mrad)",
      "Configurations/Slit &theta;<sub>1,2</sub> (mrad)",
      "Configurations/&Delta;&theta;<sub>x,y</sub> (mrad)",
      "Configurations/Target Energy (eV)",
      "Configurations/Distance from the Source (m)" }

ConfigKeys == AcceleratorKeys \cup LightSourceKeys \cup ConfigurationsKeys

\* json.load(file): nothing is assigned yet.
JsonLoad(name) ==
    [ template |-> name, assigned |-> [key \in ConfigKeys |-> None] ]

\* input_temp[...][key] = value
Put(doc, key, value) == [doc EXCEPT !.assigned[key] = Some(value)]

\* The accelerator is given to __init__ and never changes; its attributes are
\* denoted by their names.
AcceleratorValue(key) ==
    CASE key = "Accelerator/Energy (GeV)" -> <<"energy">>
      [] key = "Accelerator/Current (mA)" -> <<"current">>
      [] key = "Accelerator/&sigma;<sub>z</sub> (mm)" -> <<"sigmaz">>
      [] key = "Accelerator/Nat. Emittance (m.rad)" -> <<"nat_emittance">>
      [] key = "Accelerator/Coupling Constant" -> <<"coupling_constant">>
      [] key = "Accelerator/Energy Spread" -> <<"energy_spread">>
      [] key = "Accelerator/&beta;<sub>x,y</sub> (m)" -> <<"betax", "betay">>
      [] key = "Accelerator/&alpha;<sub>x,y</sub>" -> <<"alphax", "alphay">>
      [] key = "Accelerator/&eta;<sub>x,y</sub> (m)" -> <<"etax", "etay">>
      [] key = "Accelerator/&eta;'<sub>x,y</sub>" -> <<"etapx", "etapy">>
      [] key = "Accelerator/Options/Injection Condition" -> <<"injection_condition">>
      [] key = "Accelerator/Options/Zero Emittance" -> <<"zero_emittance">>
      [] key = "Accelerator/Options/Zero Energy Spread" -> <<"zero_energy_spread">>

SetAcceleratorConfig(doc) ==
    [doc EXCEPT !.assigned =
        [key \in ConfigKeys |->
            IF key \in AcceleratorKeys THEN Some(AcceleratorValue(key))
            ELSE doc.assigned[key]]]

\* The array a written field value denotes: one row [z, by, bx] per point.
FieldArray(v) == << <<v, v + 1, v + 2>>, <<v + 10, v + 11, v + 12>> >>

\* data[c, :] = field[:, c] for the three columns; data.tolist()
FieldData(f) == [c \in 1 .. 3 |-> [i \in 1 .. Len(f) |-> f[i][c]]]

\* The assignments of set_config, in the order of the code.
SetField(s, doc) ==
    IF s.field # None
    THEN Put(doc, "Light Source/Field Profile/data", FieldData(FieldArray(s.field[1])))
    ELSE doc

\* A variant of SetKValue that assigns 'K value' = ky whatever the source.
SetKValue_any_source(s, doc) ==
    IF s.ky # None THEN Put(doc, "Light Source/K value", s.ky) ELSE doc

SetKValue(s, doc) ==
    LET d1 == IF /\ s.ky # None
                 /\ s.source_type \in { horizontal_undulator, helical_undulator }
              THEN Put(doc, "Light Source/K value", s.ky)
              ELSE doc
        d2 == IF s.kx # None /\ s.source_type = vertical_undulator
              THEN Put(d1, "Light Source/K value", s.kx)
              ELSE d1
    IN  IF /\ s.kx # None
           /\ s.ky # None
           /\ s.source_type \in { elliptic_undulator, figure8_undulator,
                                  vertical_figure8_undulator }
        THEN Put(d2, "Light Source/K<sub>x,y</sub>", <<s.kx, s.ky>>)
        ELSE d2

SetLightSource(s, doc) ==
    LET d1 == IF s.period # None
              THEN Put(doc, "Light Source/&lambda;<sub>u</sub> (mm)", s.period)
              ELSE doc
    IN  IF s.id_length # None
        THEN Put(d1, "Light Source/Device Length (m)", s.id_length)
        ELSE d1

SetEnergy(s, doc) ==
    LET d1 == IF s.energy_range # None
              THEN Put(doc, "Configurations/Energy Range (eV)", s.energy_range)
              ELSE doc
    IN  IF s.energy_step # None
        THEN Put(d1, "Configurations/Energy Pitch (eV)", s.energy_step)
        ELSE d1

SetSlit(s, doc) ==
    LET d1 == IF s.slit_position = None THEN doc
              ELSE IF s.output_type = flux_density
              THEN Put(doc, "Configurations/Angle &theta;<sub>x,y</sub> (mrad)",
                       s.slit_position)
              ELSE IF s.output_type = flux_out
              THEN Put(doc, "Configurations/Slit Pos.: &theta;<sub>x,y</sub> (mrad)",
                       s.slit_position)
              ELSE doc
    IN  IF s.slit_acceptance = None THEN d1
        ELSE IF s.slit_shape = circular
        THEN Put(d1, "Configurations/Slit &theta;<sub>1,2</sub> (mrad)",
                 s.slit_acceptance)
        ELSE IF s.slit_shape = rectangular
        THEN Put(d1, "Configurations/&Delta;&theta;<sub>x,y</sub> (mrad)",
                 s.slit_acceptance)
        ELSE d1

SetTargetEnergy(s, doc) ==
    IF s.target_energy # None
    THEN Put(doc, "Configurations/Target Energy (eV)", s.target_energy)
    ELSE doc

SetMesh(s, doc) ==
    IF s.x_range # None
    THEN Put(Put(Put(Put(doc,
             "Configurations/&theta;<sub>x</sub> Range (mrad)", s.x_range),
             "Configurations/&theta;<sub>y</sub> Range (mrad)", s.y_range),
             "Configurations/Points (x)", s.x_nr_pts),
             "Configurations/Points (y)", s.y_nr_pts)
    ELSE doc

SetKScan(s, doc) ==
    IF s.harmonic_range # None
    THEN Put(Put(Put(Put(Put(Put(Put(doc,
             "Configurations/Harmonic Range", s.harmonic_range),
             "Configurations/K Range", s.k_range),
             "Configurations/Points (K)", s.k_nr_pts),
             "Configurations/Slice X (mm)", s.slice_x),
             "Configurations/Slice Y (mm)", s.slice_y),
             "Configurations/Slice X' (mrad)", s.slice_px),
             "Configurations/Slice Y' (mrad)", s.slice_py)
    ELSE doc

\* The document set_config builds from the template it has loaded.
InputTemp(s) ==
    LET d0 == SetAcceleratorConfig(JsonLoad(ConfigName(s)))
        d1 == SetLightSource(s, SetKValue(s, SetField(s, d0)))
        d2 == SetTargetEnergy(s, SetSlit(s, SetEnergy(s, d1)))
        d3 == SetKScan(s, SetMesh(s, d2))
    IN  Put(d3, "Configurations/Distance from the Source (m)",
            s.distance_from_source)

\* open() of a missing file
FileNotFoundMessage(name) ==
    "[Errno 2] No such file or directory: '" \o name \o "'"

\* Whether the file exists, and whether the document it holds has an object
\* "Field Profile" under "Light Source", is decided by the files of the
\* repository: both are inputs.  An exception leaves the object as it was,
\* the document being a local variable until the last statement.
set_config ==
    /\ Call
    /\ \E exists \in Booleans, profile \in Booleans :
          IF ~exists
          THEN /\ self' = self
               /\ last' = Outcome("set_config", None, "FileNotFoundError",
                                  FileNotFoundMessage(ConfigName(self)), None)
          ELSE IF self.field # None /\ ~profile
          THEN /\ self' = self
               /\ last' = Outcome("set_config", None, "KeyError",
                                  "'Field Profile'", None)
          ELSE Return("set_config", None,
                      [self EXCEPT !.input_template = Some(InputTemp(self))])
    /\ UNCHANGED <<at, events, solver_input>>

(***************************************************************************)
(* Specifications.  Every behaviour starts from a freshly constructed      *)
(* object and makes at most MaxCalls public calls.                         *)
(***************************************************************************)
Init ==
    /\ self = CalcInit
    /\ last = Outcome("__init__", None, "none", "", None)
    /\ at = "idle"
    /\ events = <<>>
    /\ solver_input = None
    /\ ncalls = 0

\* The setters of GeneralConfigs.
NextSource ==
    \/ \E value \in SourceType : set_source_type(value)
    \/ \E value \in Opaque : set_field(value)
    \/ \E value \in PeriodValues : set_period(value)
    \/ \E value \in PeakValues : set_by_peak(value)
    \/ \E value \in PeakValues : set_bx_peak(value)
    \/ \E value \in PeakValues : set_ky(value)
    \/ \E value \in PeakValues : set_kx(value)
    \/ \E value \in Opaque : set_id_length(value)
    \/ \E value \in Opaque : set_distance_from_source(value)

\* The setters of the fields that belong to one independent variable.
NextIndep ==
    \/ \E value \in Variable : set_indep_var(value)
    \/ \E value \in Opaque : set_energy_range(value)
    \/ \E value \in Opaque : set_energy_step(value)
    \/ \E value \in AngleValues : set_observation_angle(value)
    \/ \E value \in Opaque : set_target_energy(value)
    \/ \E value \in Opaque : set_x_range(value)
    \/ \E value \in Opaque : set_y_range(value)
    \/ \E value \in Opaque : set_x_nr_pts(value)
    \/ \E value \in Opaque : set_y_nr_pts(value)
    \/ \E value \in HarmonicRanges : set_harmonic_range(value)
    \/ \E value \in Opaque : set_k_range(value)
    \/ \E value \in PointCounts : set_k_nr_pts(value)
    \/ \E value \in Opaque : set_slice_x(value)
    \/ \E value \in Opaque : set_slice_y(value)
    \/ \E value \in Opaque : set_slice_px(value)
    \/ \E value \in Opaque : set_slice_py(value)

\* The setters that read or write the output type and the slit.
NextSlit ==
    \/ \E value \in Output : set_output_type(value)
    \/ \E value \in Variable : set_indep_var(value)
    \/ \E value \in Opaque : set_slit_acceptance(value)
    \/ \E value \in SlitShape : set_slit_shape(value)

\* The setters that read or write the phase error.
NextPhase ==
    \/ \E value \in Method : set_method(value)
    \/ \E value \in Booleans : set_add_phase_error(value)
    \/ \E value \in Opaque : set_random_seed(value)
    \/ \E value \in Opaque : set_rms_peak_field_var(value)
    \/ \E value \in Opaque : set_rms_phase_error(value)
    \/ \E value \in Opaque : set_rms_trajectory_error(value)

SpecSource == Init /\ [][NextSource]_vars
SpecIndep == Init /\ [][NextIndep]_vars
SpecSlit == Init /\ [][NextSlit]_vars
SpecPhase == Init /\ [][NextPhase]_vars

\* The setters of the five selectors, and set_config.
NextTemplate ==
    \/ \E value \in SourceType : set_source_type(value)
    \/ \E value \in Method : set_method(value)
    \/ \E value \in Variable : set_indep_var(value)
    \/ \E value \in Output : set_output_type(value)
    \/ \E value \in SlitShape : set_slit_shape(value)
    \/ set_config

SpecTemplate == Init /\ [][NextTemplate]_vars

\* The setters of GeneralConfigs, and set_config.
NextSourceConfig ==
    \/ \E value \in SourceType : set_source_type(value)
    \/ \E value \in Opaque : set_field(value)
    \/ \E value \in PeriodValues : set_period(value)
    \/ \E value \in PeakValues : set_by_peak(value)
    \/ \E value \in PeakValues : set_bx_peak(value)
    \/ \E value \in PeakValues : set_ky(value)
    \/ \E value \in PeakValues : set_kx(value)
    \/ \E value \in Opaque : set_id_length(value)
    \/ \E value \in Opaque : set_distance_from_source(value)
    \/ set_config

SpecSourceConfig == Init /\ [][NextSourceConfig]_vars

\* The setters of the fields that belong to one independent variable, those
\* of source_type and field, and set_config.
NextIndepConfig ==
    \/ \E value \in Variable : set_indep_var(value)
    \/ \E value \in Opaque : set_energy_range(value)
    \/ \E value \in Opaque : set_energy_step(value)
    \/ \E value \in AngleValues : set_observation_angle(value)
    \/ \E value \in Opaque : set_target_energy(value)
    \/ \E value \in Opaque : set_x_range(value)
    \/ \E value \in Opaque : set_y_range(value)
    \/ \E value \in Opaque : set_x_nr_pts(value)
    \/ \E value \in Opaque : set_y_nr_pts(value)
    \/ \E value \in HarmonicRanges : set_harmonic_range(value)
    \/ \E value \in Opaque : set_k_range(value)
    \/ \E value \in PointCounts : set_k_nr_pts(value)
    \/ \E value \in Opaque : set_slice_x(value)
    \/ \E value \in Opaque : set_slice_y(value)
    \/ \E value \in Opaque : set_slice_px(value)
    \/ \E value \in Opaque : set_slice_py(value)
    \/ \E value \in SourceType : set_source_type(value)
    \/ \E value \in Opaque : set_field(value)
    \/ set_config

SpecIndepConfig == Init /\ [][NextIndepConfig]_vars

(***************************************************************************)
(* Configurations reached by long call sequences.  The Calc setters reach  *)
(* exactly the configurations in which                                     *)
(*   - output_type flux_density has slit_shape none (output_type setter),  *)
(*   - indep_var mesh_xy has no observation angle (indep_var setter),      *)
(*   - indep_var energy without observation angle has no mesh or K field   *)
(*     (indep_var was never written).                                      *)
(* Config builds one of them on the constructed object: the fields named   *)
(* in `fields` are set, all other conditional fields are None.             *)
(***************************************************************************)
EnergyFields == { "energy_range", "energy_step" }
MeshFields == { "target_energy", "x_range", "y_range", "x_nr_pts", "y_nr_pts" }
KFields ==
    { "harmonic_range", "k_range", "k_nr_pts", "slice_x", "slice_y", "slice_px",
      "slice_py" }

Config(iv, ot, ss, acc, pos, fields, hr, np) ==
    [f \in DOMAIN CalcInit |->
        IF f = "indep_var" THEN iv
        ELSE IF f = "output_type" THEN ot
        ELSE IF f = "slit_shape" THEN ss
        ELSE IF f = "slit_acceptance" THEN acc
        ELSE IF f = "slit_position" THEN pos
        ELSE IF f \in fields
        THEN IF f = "harmonic_range" THEN Some(hr)
             ELSE IF f = "k_nr_pts" THEN Some(np)
             ELSE Some(1)
        ELSE CalcInit[f]]

ReachableSelectors(iv, ot, ss, pos, fields) ==
    /\ ot = flux_density => ss = slit_none
    /\ iv = mesh_xy => pos = None
    /\ (iv = energy /\ pos = None) => fields \cap (MeshFields \cup KFields) = {}

Positions == { None, Some(<<0, 0>>) } \cup { Some(a) : a \in AngleValues }

Acceptances == { None } \cup { Some(v) : v \in Opaque }

\* Any part of the fields of the active independent variable is set; the
\* fields of each other one are all set or all None.
PartOf(iv, group, fs) == IF iv = group THEN SUBSET fs ELSE { {}, fs }

InitVerify ==
    /\ \E iv \in Variable, ot \in Output, ss \in SlitShape, acc \in Acceptances,
          pos \in Positions :
         \E e \in PartOf(iv, energy, EnergyFields), m \in PartOf(iv, mesh_xy, MeshFields),
            kk \in PartOf(iv, k_var, KFields) :
            /\ ReachableSelectors(iv, ot, ss, pos, e \cup m \cup kk)
            /\ self = Config(iv, ot, ss, acc, pos, e \cup m \cup kk,
                             <<1, 2 * MaxHarmonics - 1>>, MaxPts)
    /\ last = Outcome("__init__", None, "none", "", None)
    /\ at = "idle"
    /\ events = <<>>
    /\ solver_input = None
    /\ ncalls = 0

\* The fields of each independent variable are all set or all None; k_nr_pts,
\* when set, is MaxPts.
InitRun ==
    /\ \E iv \in Variable, ot \in Output, ss \in SlitShape, acc \in Acceptances,
          pos \in Positions, hr \in HarmonicRanges :
         \E e \in { {}, EnergyFields }, m \in { {}, MeshFields }, kk \in { {}, KFields } :
            /\ ReachableSelectors(iv, ot, ss, pos, e \cup m \cup kk)
            /\ self = Config(iv, ot, ss, acc, pos, e \cup m \cup kk, hr, MaxPts)
    /\ last = Outcome("__init__", None, "none", "", None)
    /\ at = "idle"
    /\ events = <<>>
    /\ solver_input = None
    /\ ncalls = 0

NextVerify == verify_valid_parameters

NextRun ==
    \/ ncalls < MaxRunCalls /\ run_calculation
    \/ run_solver
    \/ run_extractdata
    \/ run_set_outputs
    \/ ncalls < MaxRunCalls /\ \E value \in Variable : set_indep_var(value)

SpecVerify == InitVerify /\ [][NextVerify]_vars
SpecRun == InitRun /\ [][NextRun]_vars

\* set_config, indep_var writes and run_calculation, from the same objects.
NextSolverInput ==
    \/ ncalls < MaxRunCalls /\ set_config
    \/ ncalls < MaxRunCalls /\ \E value \in Variable : set_indep_var(value)
    \/ ncalls < MaxRunCalls /\ run_calculation
    \/ run_solver
    \/ run_extractdata
    \/ run_set_outputs

SpecSolverInput == InitRun /\ [][NextSolverInput]_vars

(***************************************************************************)
(* Properties.  A step is a call of op when it increments ncalls and       *)
(* leaves op in last; unprimed variables are the state the call was made   *)
(* in, primed ones the state it leaves.                                    *)
(***************************************************************************)
CallOf(ops) == ncalls' = ncalls + 1 /\ last'.op \in ops

Succeeds == last'.exc = "none"

RaisesValueError == last'.exc = "ValueError"

\* The attribute a setter stores into.
Attr(op) ==
    IF op = "observation_angle" THEN "slit_position"
    ELSE IF op = "rms_trajectory_error" THEN "rms_traj_error"
    ELSE op

\* C1: a write to field succeeds iff source_type is user_defined; to period or
\* id_length iff it is not user_defined; to by_peak or ky iff it is neither
\* user_defined nor vertical_undulator; to bx_peak or kx iff it is neither
\* user_defined nor horizontal_undulator.  A write that does not succeed raises
\* ValueError; a write that succeeds stores the written value in its field.
C1_SourceWriteAllowed(op, st) ==
    IF op = "field" THEN st = user_defined
    ELSE IF op \in { "period", "id_length" } THEN st # user_defined
    ELSE IF op \in { "by_peak", "ky" } THEN st \notin { user_defined, vertical_undulator }
    ELSE st \notin { user_defined, horizontal_undulator }

C1_SourceTypeGuards ==
    [][ CallOf({ "field", "period", "id_length", "by_peak", "ky", "bx_peak", "kx" }) =>
          /\ Succeeds <=> C1_SourceWriteAllowed(last'.op, self.source_type)
          /\ ~Succeeds => RaisesValueError
          /\ Succeeds => self'[last'.op] = Some(last'.arg) ]_vars

C1_Witness ==
    /\ last.op = "kx"
    /\ last.exc = "none"
    /\ self.source_type = figure8_undulator
    /\ self.period # None
    /\ self.kx = Some(last.arg)

\* C2: a write to energy_range, energy_step or observation_angle succeeds iff
\* indep_var is energy; to a mesh field iff indep_var is mesh_xy; to a K-scan
\* field iff indep_var is k.  Every other write raises ValueError.
C2_IndepVarOf(op) ==
    IF op \in { "energy_range", "energy_step", "observation_angle" } THEN energy
    ELSE IF op \in MeshFields THEN mesh_xy
    ELSE k_var

C2_IndepVarGuards ==
    [][ CallOf({ "energy_range", "energy_step", "observation_angle" }
               \cup MeshFields \cup KFields) =>
          /\ Succeeds <=> self.indep_var = C2_IndepVarOf(last'.op)
          /\ ~Succeeds => RaisesValueError /\ self' = self
          /\ Succeeds => self'[Attr(last'.op)] = Some(last'.arg) ]_vars

C2_Witness ==
    /\ last.op = "slice_px"
    /\ last.exc = "none"
    /\ self.indep_var = k_var
    /\ self.slice_px # None

\* C3: a write to slit_acceptance or slit_shape succeeds iff output_type is
\* flux (partialflux) at the time of the write; otherwise it raises ValueError.
C3_SlitGuards ==
    [][ CallOf({ "slit_acceptance", "slit_shape" }) =>
          /\ Succeeds <=> self.output_type = flux_out
          /\ ~Succeeds => RaisesValueError /\ self' = self
          /\ (Succeeds /\ last'.op = "slit_shape") => self'.slit_shape = last'.arg
          /\ (Succeeds /\ last'.op = "slit_acceptance") =>
                self'.slit_acceptance = Some(last'.arg) ]_vars

C3_Witness ==
    /\ last.op = "slit_shape"
    /\ last.exc = "none"
    /\ self.output_type = flux_out
    /\ self.slit_shape = circular

\* C4: a write to add_phase_error succeeds iff method is near_field; a write to
\* random_seed, rms_peak_field_var, rms_phase_error or rms_trajectory_error
\* succeeds iff add_phase_error is exactly True at the time of the write;
\* otherwise ValueError is raised.
C4_PhaseErrorGuards ==
    [][ /\ CallOf({ "add_phase_error" }) =>
             /\ Succeeds <=> self.method = near_field
             /\ ~Succeeds => RaisesValueError /\ self' = self
        /\ CallOf({ "random_seed", "rms_peak_field_var", "rms_phase_error",
                    "rms_trajectory_error" }) =>
             /\ Succeeds <=> self.add_phase_error = Some(TRUE)
             /\ ~Succeeds => RaisesValueError /\ self' = self
             /\ Succeeds => self'[Attr(last'.op)] = Some(last'.arg) ]_vars

C4_Witness ==
    /\ last.op = "rms_phase_error"
    /\ last.exc = "none"
    /\ self.add_phase_error = Some(TRUE)
    /\ self.rms_phase_error # None

\* C5: in every reachable state, field set implies source_type user_defined,
\* and any of period, by_peak, bx_peak, ky, kx, id_length set implies
\* source_type not user_defined.
C5_SourceFieldsExclusive ==
    /\ self.field # None => self.source_type = user_defined
    /\ (\E f \in { "period", "by_peak", "bx_peak", "ky", "kx", "id_length" } :
           self[f] # None) => self.source_type # user_defined

\* C6: in every reachable state, every field of an independent variable other
\* than the active indep_var is None.
C6_FieldsOf(iv) ==
    IF iv = energy THEN { "energy_range", "energy_step", "slit_position" }
    ELSE IF iv = mesh_xy THEN MeshFields
    ELSE KFields

C6_TaggedUnion ==
    \A iv \in Variable \ { self.indep_var } : \A f \in C6_FieldsOf(iv) : self[f] = None

\* C7: in every reachable state, slit_shape other than none implies
\* output_type flux.
C7_SlitShapeOnlyForFlux == self.slit_shape # slit_none => self.output_type = flux_out

\* C8: verify_valid_parameters returns True exactly when every field required
\* by the active indep_var is set (for energy also slit_acceptance when
\* output_type is flux); otherwise it raises ValueError naming the first
\* missing field in the listed order.  It never returns False and changes no
\* field.
C8_Required(iv, ot) ==
    IF iv = energy
    THEN << <<"energy_range", "Energy range must be defined.">>,
            <<"energy_step", "Energy step must be defined.">>,
            <<"slit_position", "Observation angle must be defined.">> >>
         \o (IF ot = flux_out
             THEN << <<"slit_acceptance", "Slit acceptance must be defined.">> >>
             ELSE << >>)
    ELSE IF iv = mesh_xy
    THEN << <<"target_energy", "Energy target must be defined">>,
            <<"x_range", "X range must be defined.">>,
            <<"y_range", "Y range must be defined.">>,
            <<"x_nr_pts", "Nr. of x points must be defined.">>,
            <<"y_nr_pts", "Nr. of y points must be defined.">> >>
    ELSE << <<"harmonic_range", "Harmonic range must be defined.">>,
            <<"k_range", "K range must be defined.">>,
            <<"k_nr_pts", "Number of K points must be defined.">>,
            <<"slice_x", "Slice x must be defined.">>,
            <<"slice_y", "Slice y must be defined.">>,
            <<"slice_px", "Slice px must be defined.">>,
            <<"slice_py", "Slice py must be defined.">> >>

C8_Missing(s) ==
    LET req == C8_Required(s.indep_var, s.output_type)
    IN  { i \in 1 .. Len(req) : s[req[i][1]] = None }

C8_FirstMissingMessage(s) ==
    LET req == C8_Required(s.indep_var, s.output_type)
        first == CHOOSE i \in C8_Missing(s) : \A j \in C8_Missing(s) : i <= j
    IN  req[first][2]

C9_UnsetSlitShapeRejected ==
    ( /\ last.op = "verify_valid_parameters"
      /\ self.indep_var = energy
      /\ self.output_type = flux_out
      /\ self.slit_shape = slit_none
      /\ self.energy_range # None
      /\ self.energy_step # None
      /\ self.slit_position # None
      /\ self.slit_acceptance # None )
    => (last.exc = "ValueError" /\ last.msg = "Slit shape must be defined.")

\* C10: run_calculation validates before it computes.  If validation raises,
\* the solver is neither constructed nor run and every output field keeps its
\* value; when it passes, the steps come in the order verify, solver run,
\* extractdata, _set_outputs.
C10_Outputs(s) ==
    [f \in { "output_captions", "output_data", "output_variables", "flux",
             "brilliance", "pl", "pc", "pl45", "energies", "x", "y", "k" } |-> s[f]]

C10_Order == << "verify", "Solver", "Run", "extractdata", "_set_outputs" >>

C10_IsPrefix(a, b) == Len(a) <= Len(b) /\ a = SubSeq(b, 1, Len(a))

C10_ValidateBeforeCompute ==
    [][ /\ C10_IsPrefix(events', C10_Order)
        /\ (CallOf({ "run_calculation" }) /\ C8_Missing(self) # {}) =>
             /\ RaisesValueError
             /\ at' = "idle"
             /\ events' = << "verify" >>
             /\ C10_Outputs(self') = C10_Outputs(self)
        /\ (CallOf({ "run_calculation" }) /\ C8_Missing(self) = {}) =>
             /\ at' = "solver"
             /\ events' = << "verify" >>
        /\ (at # "idle" /\ at' = "idle" /\ Succeeds) => events' = C10_Order
        /\ at' = "extract" => events' = SubSeq(C10_Order, 1, 3)
        /\ at' = "set_outputs" => events' = SubSeq(C10_Order, 1, 4)
        /\ at \notin { "extract", "set_outputs" } =>
             C10_Outputs(self') = C10_Outputs(self) ]_vars

C10_Witness ==
    /\ last.op = "run_calculation"
    /\ last.exc = "ValueError"
    /\ events = << "verify" >>
    /\ at = "idle"
    /\ self.flux # None
    /\ self.output_data # None


\* C11: set_config opens the file
\* calculation_parameters/<source_type>_<method>_<indep_var>_<output_type>.json
\* of the repository, with _<slit_shape> inserted before .json iff slit_shape
\* is not the empty value: the name is a function of the five selectors only.
\* The name opened is the one the loaded document comes from, or the one the
\* FileNotFoundError reports.
C11_FileName(st, m, iv, ot, ss) ==
    LET stem == st \o "_" \o m \o "_" \o iv \o "_" \o ot
    IN  REPOS_PATH \o "/calculation_parameters/"
            \o (IF ss = slit_none THEN stem ELSE stem \o "_" \o ss) \o ".json"

C11_TemplateByTags ==
    [][CallOf({ "set_config" }) =>
        LET name == C11_FileName(self.source_type, self.method, self.indep_var,
                                 self.output_type, self.slit_shape)
        IN  /\ Succeeds =>
                /\ self'.input_template # None
                /\ self'.input_template[1].template = name
            /\ last'.exc = "FileNotFoundError" =>
                last'.msg = FileNotFoundMessage(name)]_vars

C11_Witness ==
    /\ last.op = "set_config"
    /\ last.exc = "none"
    /\ self.slit_shape = circular
    /\ self.indep_var = k_var
    /\ self.input_template # None
    /\ self.input_template[1].template =
           REPOS_PATH \o "/calculation_parameters/userdefined_nearfield_k_partialflux_circslit.json"


\* C12: in the document set_config stores, 'K value' is assigned ky when ky is
\* not None and the source is the horizontal or the helical undulator, and kx
\* when kx is not None and the source is the vertical undulator;
\* 'K<sub>x,y</sub>' is assigned [kx, ky] when both are not None and the
\* source is the elliptic, figure-8 or vertical figure-8 undulator; in every
\* other case the key is not assigned.
C12_KFromKy(s) ==
    /\ s.ky # None
    /\ s.source_type \in { horizontal_undulator, helical_undulator }

C12_KFromKx(s) == s.kx # None /\ s.source_type = vertical_undulator

C12_KPair(s) ==
    /\ s.kx # None
    /\ s.ky # None
    /\ s.source_type \in { elliptic_undulator, figure8_undulator,
                           vertical_figure8_undulator }

C12_KValueKeys ==
    [][CallOf({ "set_config" }) /\ Succeeds =>
        LET assigned == self'.input_template[1].assigned
            kvalue == assigned["Light Source/K value"]
            kpair == assigned["Light Source/K<sub>x,y</sub>"]
        IN  /\ C12_KFromKy(self) => kvalue = Some(self.ky)
            /\ C12_KFromKx(self) => kvalue = Some(self.kx)
            /\ C12_KPair(self) => kpair = Some(<<self.kx, self.ky>>)
            /\ ~C12_KFromKy(self) /\ ~C12_KFromKx(self) => kvalue = None
            /\ ~C12_KPair(self) => kpair = None]_vars

C12_Witness ==
    /\ last.op = "set_config"
    /\ last.exc = "none"
    /\ self.source_type = figure8_undulator
    /\ self.kx = Some(Num(1))
    /\ self.ky = Some(Num(2))
    /\ self.input_template # None
    /\ self.input_template[1].assigned["Light Source/K<sub>x,y</sub>"]
           = Some(<<Some(Num(1)), Some(Num(2))>>)
    /\ self.input_template[1].assigned["Light Source/K value"] = None


\* C13: with c = 1e-3 * ECHARGE_MC, a successful write by_peak := v made while
\* period is not None leaves ky = c * v * period, doubled when the source is
\* the vertical figure-8 undulator; bx_peak := v leaves kx = c * v * period,
\* doubled for the figure-8 undulator; ky := v leaves by_peak = v / (c * period),
\* halved for the vertical figure-8; kx := v leaves bx_peak = v / (c * period),
\* halved for the figure-8.  Made while period is None, the write leaves the
\* counterpart quantity as it was.
C13_Counterpart(op) ==
    CASE op = "by_peak" -> "ky"
      [] op = "bx_peak" -> "kx"
      [] op = "ky" -> "by_peak"
      [] op = "kx" -> "bx_peak"

\* the source whose amplitude counts twice for the quantity written by op
C13_Figure8(op) ==
    IF op \in { "by_peak", "ky" } THEN vertical_figure8_undulator
    ELSE figure8_undulator

\* f * c * v * p
C13_Times(f, v, p) == Q(f * v.n * p, v.d, v.e + 1)

\* v / (f * c * p)
C13_Over(f, v, p) == Q(v.n, f * v.d * p, v.e - 1)

C13_Coupling ==
    [][CallOf({ "by_peak", "bx_peak", "ky", "kx" }) /\ Succeeds =>
        LET op == last'.op
            v == last'.arg
            f == IF self.source_type = C13_Figure8(op) THEN 2 ELSE 1
            other == C13_Counterpart(op)
        IN  IF self.period = None
            THEN self'[other] = self[other]
            ELSE IF op \in { "by_peak", "bx_peak" }
            THEN self'[other] = Some(C13_Times(f, v, self.period[1]))
            ELSE self'[other] = Some(C13_Over(f, v, self.period[1]))]_vars

C13_Witness ==
    /\ last.op = "by_peak"
    /\ last.exc = "none"
    /\ last.arg = Num(1)
    /\ self.source_type = vertical_figure8_undulator
    /\ self.period = Some(2)
    /\ self.ky = Some([n |-> 4, d |-> 1, e |-> 1])


\* C14: when indep_var is energy, _set_outputs leaves flux = row 0 of data and
\* energies = row 0 of variables; with 5 caption titles pl, pc, pl45 are rows
\* 1, 2, 3 of data and brilliance is not written; with 6 titles brilliance is
\* row 1 and pl, pc, pl45 are rows 2, 3, 4.  (Row r of the array is element
\* r + 1 of the sequence.)
C14_Row(s, r) == Some(s.output_data[1][r + 1])

C14_EnergyLabelling ==
    [][at = "set_outputs" /\ at' = "idle" /\ self.indep_var = energy =>
        LET titles == Len(self.output_captions[1].titles)
        IN  /\ Succeeds
            /\ self'.flux = C14_Row(self, 0)
            /\ self'.energies = Some(self.output_variables[1][1])
            /\ titles = 5 =>
                 /\ self'.pl = C14_Row(self, 1)
                 /\ self'.pc = C14_Row(self, 2)
                 /\ self'.pl45 = C14_Row(self, 3)
                 /\ self'.brilliance = self.brilliance
            /\ titles = 6 =>
                 /\ self'.brilliance = C14_Row(self, 1)
                 /\ self'.pl = C14_Row(self, 2)
                 /\ self'.pc = C14_Row(self, 3)
                 /\ self'.pl45 = C14_Row(self, 4)]_vars

\* a spectrum with 5 titles computed after one with 6
C14_Witness ==
    /\ last.op = "run_calculation"
    /\ last.exc = "none"
    /\ at = "idle"
    /\ self.indep_var = energy
    /\ Len(self.output_captions[1].titles) = 5
    /\ self.flux = C14_Row(self, 0)
    /\ self.pl45 = C14_Row(self, 3)
    /\ self.brilliance # None
    /\ self.brilliance # C14_Row(self, 1)


\* C15: when indep_var is mesh_xy, _set_outputs leaves x = row 0 and y = row 1
\* of variables and, with nx = len(x) and ny = len(y), turns each of flux, pl,
\* pc, pl45 (the flat rows 0..3 of data, of length nx * ny) into the nx-by-ny
\* array A with A[i][j] = row[(nx - 1 - i) * ny + j]: the flat row is cut into
\* nx consecutive chunks of ny values and the chunks are stored last first.
\* (Indices of the claim count from 0, those of a sequence from 1.)
C15_IsMesh(A, row, nx, ny) ==
    /\ Len(A) = nx
    /\ \A i \in 0 .. nx - 1 :
          /\ Len(A[i + 1]) = ny
          /\ \A j \in 0 .. ny - 1 : A[i + 1][j + 1] = row[(nx - 1 - i) * ny + j + 1]

C16_KOutputs ==
    ( /\ last.op = "run_calculation"
      /\ last.exc = "none"
      /\ at = "idle"
      /\ self.indep_var = k_var ) =>
        /\ self.k = Some(self.output_variables[1])
        /\ self.brilliance # None


\* C17: a write indep_var := energy sets observation_angle to [0, 0], a write
\* indep_var := mesh_xy sets observation_angle to None and slit_shape to the
\* empty value, a write indep_var := k sets neither; besides indep_var itself
\* the write changes no other attribute (energy_range, energy_step,
\* target_energy, the mesh fields and the K-scan fields keep their values).
C17_Unchanged(attributes) == \A f \in attributes : self'[f] = self[f]

C17_IndepVarFrame ==
    [][CallOf({ "indep_var" }) =>
        /\ Succeeds
        /\ self'.indep_var = last'.arg
        /\ last'.arg = energy =>
             /\ self'.slit_position = Some(<<0, 0>>)
             /\ C17_Unchanged(DOMAIN self \ { "indep_var", "slit_position" })
        /\ last'.arg = mesh_xy =>
             /\ self'.slit_position = None
             /\ self'.slit_shape = slit_none
             /\ C17_Unchanged(DOMAIN self \ { "indep_var", "slit_position",
                                              "slit_shape" })
        /\ last'.arg \notin { energy, mesh_xy } =>
             C17_Unchanged(DOMAIN self \ { "indep_var" })]_vars

\* indep_var := mesh_xy written to an object that has computed a spectrum
C17_Witness ==
    /\ last.op = "indep_var"
    /\ last.arg = mesh_xy
    /\ self.indep_var = mesh_xy
    /\ self.slit_position = None
    /\ self.energy_range # None
    /\ self.energy_step # None
    /\ self.energies # None


\* C18: a write output_type := flux_density resets slit_shape to the empty
\* value; a write output_type := flux or brilliance leaves slit_shape as it
\* was; besides output_type itself no other attribute changes.
C18_Kept(attributes) == \A f \in attributes : self'[f] = self[f]

C18_OutputTypeFrame ==
    [][CallOf({ "output_type" }) =>
        /\ Succeeds
        /\ self'.output_type = last'.arg
        /\ last'.arg = flux_density => self'.slit_shape = slit_none
        /\ last'.arg \in { flux_out, brilliance_out } =>
             self'.slit_shape = self.slit_shape
        /\ C18_Kept(DOMAIN self \ { "output_type", "slit_shape" })]_vars

\* output_type := brilliance written while a circular slit is configured
C18_Witness ==
    /\ last.op = "output_type"
    /\ last.arg = brilliance_out
    /\ self.output_type = brilliance_out
    /\ self.slit_shape = circular
    /\ self.slit_acceptance # None


\* C19: in every state reached by setter calls, if random_seed,
\* rms_peak_field_var, rms_phase_error or rms_trajectory_error is not None
\* then add_phase_error is True, and if add_phase_error is True then method is
\* near_field.
C19_PhaseErrorParameters ==
    { "random_seed", "rms_peak_field_var", "rms_phase_error", "rms_traj_error" }

C19_PhaseErrorInvariant ==
    /\ (\E f \in C19_PhaseErrorParameters : self[f] # None) =>
           self.add_phase_error = Some(TRUE)
    /\ self.add_phase_error = Some(TRUE) => self.method = near_field

\* C20: the document a set_config call stores has the energy keys (Energy
\* Range, Energy Pitch, angle / slit position) assigned only if indep_var is
\* energy, the mesh keys (Target Energy, theta ranges, Points x / y) only if
\* indep_var is mesh_xy, the K-scan keys only if indep_var is k, and the Field
\* Profile only if source_type is user_defined.
C20_Assigned(keys) ==
    \E key \in keys : self.input_template[1].assigned[key] # None

C20_OnlyLegitimateKeys ==
    (last.op = "set_config" /\ last.exc = "none") =>
        /\ C20_Assigned(EnergyKeys \cup
                { "Configurations/Angle &theta;<sub>x,y</sub> (mrad)",
                  "Configurations/Slit Pos.: &theta;<sub>x,y</sub> (mrad)" })
              => self.indep_var = energy
        /\ C20_Assigned(MeshKeys \cup { "Configurations/Target Energy (eV)" })
              => self.indep_var = mesh_xy
        /\ C20_Assigned(KScanKeys) => self.indep_var = k_var
        /\ C20_Assigned({ "Light Source/Field Profile/data" })
              => self.source_type = user_defined


\* C21: the document run_calculation hands to the solver is the one set_config
\* would build from the attributes as they are when run_calculation is called:
\* never the unset initial template, never a document built before a later
\* setter call.  (No attribute changes between the call and the construction
\* of the solver, so the attributes are read in the state of that step.)
C21_SolverInputFresh ==
    [][at = "solver" =>
        solver_input' = Some(JsonDumps(Some(InputTemp(self))))]_vars

====
